---- MODULE Spec2Model ----
(***************************************************************************)
(* qrabackup: the job execution and progress-tracking engine of            *)
(* src/qrabackup.py (RsyncRunner and the run/queue logic of MainWindow).   *)
(*                                                                         *)
(* Program strings and byte strings are sequences of one-character         *)
(* strings, so that strip(), endswith(), split() and the two regular       *)
(* expressions are computed character by character as the code does.       *)
(***************************************************************************)
EXTENDS Integers, Sequences, FiniteSets, TLC

(***************************************************************************)
(* Bounds of the model.                                                    *)
(***************************************************************************)
\* readyReadStandardOutput notifications delivered to one process
MaxReads == 1

(***************************************************************************)
(* Characters and strings.                                                 *)
(***************************************************************************)
Digits == {"0", "1", "2", "3", "4", "5", "6", "7", "8", "9"}

Letters == {"a", "b", "c", "d", "h", "k", "o", "t", "x"}

\* \w of Python's re on str: letters, digits and the underscore
IsWord(c) == c \in Digits \cup Letters \cup {"_"}

IsDigit(c) == c \in Digits

\* the characters str.strip() removes
IsSpace(c) == c \in {" ", "\t", "\n", "\r"}

DigitVal(c) ==
  CASE c = "0" -> 0 [] c = "1" -> 1 [] c = "2" -> 2 [] c = "3" -> 3
    [] c = "4" -> 4 [] c = "5" -> 5 [] c = "6" -> 6 [] c = "7" -> 7
    [] c = "8" -> 8 [] c = "9" -> 9

RECURSIVE ParseInt(_)
\* int() of a string of decimal digits
ParseInt(ds) ==
  IF ds = <<>> THEN 0
  ELSE 10 * ParseInt(SubSeq(ds, 1, Len(ds) - 1)) + DigitVal(ds[Len(ds)])

RECURSIVE LStrip(_)
LStrip(s) == IF s # <<>> /\ IsSpace(Head(s)) THEN LStrip(Tail(s)) ELSE s

RECURSIVE RStrip(_)
RStrip(s) ==
  IF s # <<>> /\ IsSpace(s[Len(s)]) THEN RStrip(SubSeq(s, 1, Len(s) - 1)) ELSE s

\* str.strip()
Strip(s) == RStrip(LStrip(s))

\* str.endswith("/")
EndsWithSlash(s) == s # <<>> /\ s[Len(s)] = "/"

Max(a, b) == IF a >= b THEN a ELSE b

Min(a, b) == IF a <= b THEN a ELSE b

RECURSIVE Flatten(_)
\* the concatenation of a sequence of sequences
Flatten(ss) == IF ss = <<>> THEN <<>> ELSE Head(ss) \o Flatten(Tail(ss))

(***************************************************************************)
(* JobOptions, Job.                                                        *)
(***************************************************************************)
OptionNames ==
  {"archive", "verbose", "compress", "delete", "preserve", "dry_run", "progress"}

\* JobOptions(): the dataclass defaults
JobOptions ==
  [archive |-> TRUE, verbose |-> FALSE, compress |-> FALSE, delete |-> FALSE,
   preserve |-> FALSE, dry_run |-> FALSE, progress |-> TRUE]

Job(name, sources, destination, excludes, options) ==
  [name |-> name, sources |-> sources, destination |-> destination,
   excludes |-> excludes, options |-> options]

(***************************************************************************)
(* The file system, as far as os.path.isdir() looks at it.                 *)
(***************************************************************************)
ExistingDirs == { <<"/", "a">>, <<"/", "a", "/">>, <<"/", "b">>, <<"/", "b", "/">> }

IsDir(s) == s \in ExistingDirs

(***************************************************************************)
(* MainWindow._rsync_args_for_job                                          *)
(***************************************************************************)
FlagArchive == <<"-", "a">>

FlagVerbose == <<"-", "v">>

FlagCompress == <<"-", "z">>

FlagsPreserve == << <<"-", "p">>, <<"-", "o">>, <<"-", "g">>, <<"-", "D">>, <<"-", "t">> >>

FlagDelete == <<"-", "-", "d", "e", "l", "e", "t", "e">>

FlagDryRun == <<"-", "-", "d", "r", "y", "-", "r", "u", "n">>

FlagProgress ==
  <<"-", "-", "i", "n", "f", "o", "=", "p", "r", "o", "g", "r", "e", "s", "s", "2">>

FlagExclude == <<"-", "-", "e", "x", "c", "l", "u", "d", "e">>

\* mutant of OptionFlags: --delete comes before the flags of preserve
OptionFlagsDeleteFirst(o) ==
  (IF o.archive THEN <<FlagArchive>> ELSE <<>>)
  \o (IF o.verbose THEN <<FlagVerbose>> ELSE <<>>)
  \o (IF o.compress THEN <<FlagCompress>> ELSE <<>>)
  \o (IF o.delete THEN <<FlagDelete>> ELSE <<>>)
  \o (IF o.preserve THEN FlagsPreserve ELSE <<>>)
  \o (IF o.dry_run THEN <<FlagDryRun>> ELSE <<>>)
  \o (IF o.progress THEN <<FlagProgress>> ELSE <<>>)

OptionFlags(o) ==
  (IF o.archive THEN <<FlagArchive>> ELSE <<>>)
  \o (IF o.verbose THEN <<FlagVerbose>> ELSE <<>>)
  \o (IF o.compress THEN <<FlagCompress>> ELSE <<>>)
  \o (IF o.preserve THEN FlagsPreserve ELSE <<>>)
  \o (IF o.delete THEN <<FlagDelete>> ELSE <<>>)
  \o (IF o.dry_run THEN <<FlagDryRun>> ELSE <<>>)
  \o (IF o.progress THEN <<FlagProgress>> ELSE <<>>)

ExcludeArgs(excludes) ==
  Flatten([i \in 1..Len(excludes) |-> <<FlagExclude, excludes[i]>>])

\* mutant of NormSource: the slash is added whether or not the source is a directory
NormSourceAlways(s) == IF s # <<>> /\ ~EndsWithSlash(s) THEN s \o <<"/">> ELSE s

\* one source, with the trailing slash added to an existing directory
NormSource(s) == IF s # <<>> /\ IsDir(s) /\ ~EndsWithSlash(s) THEN s \o <<"/">> ELSE s

NormSources(sources) == [i \in 1..Len(sources) |-> NormSource(sources[i])]

\* ok = FALSE stands for the ValueError raised, err for its message
RsyncArgsForJob(job) ==
  IF job.sources = <<>>
    THEN [ok |-> FALSE, err |-> "Profile has no sources", args |-> <<>>]
  ELSE IF job.destination = <<>>
    THEN [ok |-> FALSE, err |-> "Profile has no destination", args |-> <<>>]
  ELSE [ok |-> TRUE, err |-> "",
        args |-> OptionFlags(job.options) \o ExcludeArgs(job.excludes)
                   \o NormSources(job.sources) \o <<job.destination>>]

(***************************************************************************)
(* RsyncRunner: the two regular expressions and the progress extraction.   *)
(***************************************************************************)
\* the length of the run of digits of s that starts at position i
RECURSIVE DigitRun(_, _)
DigitRun(s, i) == IF i <= Len(s) /\ IsDigit(s[i]) THEN 1 + DigitRun(s, i + 1) ELSE 0

\* _re_percent = \b(\d{1,3})%\b matches with its first digit at position i:
\* a word boundary before the digits, one to three digits, a percent sign,
\* and a word boundary after the percent sign, which is there only when a
\* word character follows it
PercentAt(s, i) ==
  LET n == DigitRun(s, i)
  IN /\ i <= Len(s)
     /\ (i = 1 \/ ~IsWord(s[i - 1]))
     /\ n >= 1 /\ n <= 3
     /\ i + n <= Len(s) /\ s[i + n] = "%"
     /\ i + n + 1 <= Len(s) /\ IsWord(s[i + n + 1])

\* _re_percent.search(line): the digits of the leftmost match, or <<>>
RePercentSearch(s) ==
  LET at == {i \in 1..Len(s) : PercentAt(s, i)}
  IN IF at = {} THEN <<>>
     ELSE LET i == CHOOSE j \in at : \A k \in at : j <= k
          IN SubSeq(s, i, i + DigitRun(s, i) - 1)

ToChkKey == <<"t", "o", "-", "c", "h", "k", "=">>

\* _re_tochk = to-chk=(\d+)/(\d+) matches with its "t" at position i
ToChkAt(s, i) ==
  LET p == i + Len(ToChkKey)
      n == DigitRun(s, p)
  IN /\ p - 1 <= Len(s)
     /\ SubSeq(s, i, p - 1) = ToChkKey
     /\ n >= 1
     /\ p + n <= Len(s) /\ s[p + n] = "/"
     /\ DigitRun(s, p + n + 1) >= 1

\* _re_tochk.search(line): the two groups of the leftmost match, or <<>>
ReToChkSearch(s) ==
  LET at == {i \in 1..Len(s) : ToChkAt(s, i)}
  IN IF at = {} THEN <<>>
     ELSE LET i == CHOOSE j \in at : \A k \in at : j <= k
              p == i + Len(ToChkKey)
              n == DigitRun(s, p)
              m == DigitRun(s, p + n + 1)
          IN <<SubSeq(s, p, p + n - 1), SubSeq(s, p + n + 1, p + n + m)>>

\* the whole percentages p for which Python's float arithmetic gives
\* (p / 100) * 100 < p, so that int() of it is p - 1 (all of them up to 1000)
FloatShort ==
  {29, 57, 58, 113, 114, 115, 116, 201, 203, 205, 207, 226, 228, 230, 232,
   251, 253, 255, 402, 406, 410, 414, 427, 431, 435, 439, 452, 456, 460, 464,
   477, 481, 485, 489, 502, 506, 510, 803, 804, 812, 820, 828, 829, 837, 845,
   853, 854, 862, 870, 878, 879, 887, 895, 903, 904, 912, 920, 928, 929, 937,
   945, 953, 954, 962, 970, 978, 979, 987, 995}

\* int((done / total) * 100) for total > 0: true division and multiplication
\* in double precision, then truncation toward zero
IntPct(done, total) ==
  LET a == IF done >= 0 THEN done ELSE -done
      q == (a * 100) \div total
      t == IF (a * 100) % total = 0 /\ q \in FloatShort THEN q - 1 ELSE q
  IN IF done >= 0 THEN t ELSE -t

\* the byte no UTF-8 text contains, and what decode(errors="replace") makes of it
BadByte == "0xFF"

ReplacementChar == "U+FFFD"

\* bytes.decode(errors="replace")
Decode(raw) == [i \in 1..Len(raw) |-> IF raw[i] = BadByte THEN ReplacementChar ELSE raw[i]]

RECURSIVE Split(_)
\* bytes.split(b"\n"): always at least one piece, the last one unterminated
Split(b) ==
  LET nl == {i \in 1..Len(b) : b[i] = "\n"}
  IN IF nl = {} THEN <<b>>
     ELSE LET i == CHOOSE j \in nl : \A k \in nl : j <= k
          IN <<SubSeq(b, 1, i - 1)>> \o Split(SubSeq(b, i + 1, Len(b)))

(***************************************************************************)
(* The state the operations work on is one record s:                       *)
(*   s.win     MainWindow: jobs, current_job_index, run_queue, the form    *)
(*             widgets, the enabled/disabled state of the controls and the *)
(*             slots connected to runner.finished                          *)
(*   s.runner  RsyncRunner: _buf, _last_percent                            *)
(*   s.proc    the QProcess: its state() and the readyRead notifications   *)
(*             delivered so far                                            *)
(*   s.obs     what an observer of the signals and of the log has seen     *)
(* Indices are 1-based: Python's job index i is i + 1 here, and            *)
(* current_job_index = 0 is Python's -1.                                   *)
(***************************************************************************)
Ev(sig, n, text) == [sig |-> sig, n |-> n, text |-> text]

\* a signal of the runner reaches its observers
Emit(s, ev) == [s EXCEPT !.obs.trace = Append(@, ev)]

\* progress.emit(pct)
EmitProgress(s, pct) == Emit(s, Ev("progress", pct, <<>>))

\* line.emit(text)
EmitLine(s, text) == Emit(s, Ev("line", 0, text))

ErrNoRsync == <<"E", "r", "r", "o", "r", ":", " ", "r", "s", "y", "n", "c">>

\* error_line.emit(text)
EmitErrorLine(s, text) == Emit(s, Ev("error_line", 0, text))

\* the two places of _update_progress_from_line that emit a new percentage
NewPercent(s, pct) ==
  IF pct # s.runner.last_percent
    THEN EmitProgress([s EXCEPT !.runner.last_percent = pct], pct)
    ELSE s

\* RsyncRunner._update_progress_from_line
UpdateProgressFromLine(s, line) ==
  LET m == RePercentSearch(line)
      m2 == ReToChkSearch(line)
  IN IF m # <<>> THEN NewPercent(s, Max(0, Min(100, ParseInt(m))))
     ELSE IF m2 # <<>>
       THEN LET left == ParseInt(m2[1])
                total == ParseInt(m2[2])
            IN IF total > 0 THEN NewPercent(s, IntPct(total - left, total)) ELSE s
     ELSE s

\* the body of the loops over lines: decode, line.emit, progress extraction
HandleRaw(s, raw) ==
  LET text == Decode(raw) IN UpdateProgressFromLine(EmitLine(s, text), text)

RECURSIVE HandleRaws(_, _)
HandleRaws(s, raws) ==
  IF raws = <<>> THEN s ELSE HandleRaws(HandleRaw(s, Head(raws)), Tail(raws))

\* mutant of ReadStdout: the chunk is split without the buffered fragment
ReadStdoutUnbuffered(s, data) ==
  IF data = <<>> THEN s
  ELSE LET lines == Split(data)
           s1 == [s EXCEPT !.runner.buf = lines[Len(lines)]]
       IN HandleRaws(s1, SubSeq(lines, 1, Len(lines) - 1))

\* RsyncRunner._read_stdout, data being what readAllStandardOutput() returns
ReadStdout(s, data) ==
  IF data = <<>> THEN s
  ELSE LET lines == Split(s.runner.buf \o data)
           s1 == [s EXCEPT !.runner.buf = lines[Len(lines)]]
       IN HandleRaws(s1, SubSeq(lines, 1, Len(lines) - 1))

(***************************************************************************)
(* MainWindow: the form of the selected profile.                           *)
(* The widgets signal as Qt documents it: QListWidget.addItem() emits      *)
(* rowsInserted, QListWidget.clear() resets the model and emits neither    *)
(* rowsInserted nor rowsRemoved, QLineEdit.setText() and                   *)
(* QCheckBox.setChecked() emit only when the value changes, and            *)
(* QPlainTextEdit.setPlainText() always emits textChanged.  All of them    *)
(* are connected to _form_changed.                                         *)
(***************************************************************************)
InRange(s, idx) == 1 <= idx /\ idx <= Len(s.win.jobs)

\* the exclude patterns of the text of exclude_edit, given as its lines
ExcludesOf(lines) ==
  LET keep == {i \in 1..Len(lines) : Strip(lines[i]) # <<>>}
      F[i \in 0..Len(lines)] ==
        IF i = 0 THEN <<>>
        ELSE IF i \in keep THEN Append(F[i - 1], Strip(lines[i])) ELSE F[i - 1]
  IN F[Len(lines)]

\* MainWindow._collect_form_into_job
CollectFormIntoJob(form, job) ==
  [job EXCEPT !.sources = form.src,
              !.destination = Strip(form.dst),
              !.excludes = ExcludesOf(form.excl),
              !.options = form.opt]

\* MainWindow._form_changed (update_cmd_preview only displays, save_settings
\* collects the form once more and writes the settings file)
FormChanged(s) ==
  IF InRange(s, s.win.current_job_index)
    THEN [s EXCEPT !.win.jobs[s.win.current_job_index] =
                      CollectFormIntoJob(s.win.form, @)]
    ELSE s

\* src_list.addItem(x)
AddItem(s, x) == FormChanged([s EXCEPT !.win.form.src = Append(@, x)])

RECURSIVE AddItems(_, _)
AddItems(s, xs) == IF xs = <<>> THEN s ELSE AddItems(AddItem(s, Head(xs)), Tail(xs))

\* dst_edit.setText(text)
SetDstText(s, text) ==
  IF s.win.form.dst = text THEN s ELSE FormChanged([s EXCEPT !.win.form.dst = text])

\* exclude_edit.setPlainText("\n".join(lines))
SetExcludeText(s, lines) == FormChanged([s EXCEPT !.win.form.excl = lines])

\* chk_<k>.setChecked(b)
SetChecked(s, k, b) ==
  IF s.win.form.opt[k] = b THEN s ELSE FormChanged([s EXCEPT !.win.form.opt[k] = b])

\* the order in which _load_job_into_form sets the check boxes
CheckOrder ==
  <<"archive", "verbose", "compress", "delete", "preserve", "dry_run", "progress">>

RECURSIVE LoadChecks(_, _, _)
\* each check box is set from the job as it is by then
LoadChecks(s, row, ks) ==
  IF ks = <<>> THEN s
  ELSE LoadChecks(SetChecked(s, Head(ks), s.win.jobs[row].options[Head(ks)]), row, Tail(ks))

\* MainWindow._load_job_into_form(self.jobs[row]); the job is read again at
\* every statement, the loop over job.sources runs over the list it started with
LoadJobIntoForm(s, row) ==
  LET s1 == [s EXCEPT !.win.form.src = <<>>]
      s2 == AddItems(s1, s.win.jobs[row].sources)
      s3 == SetDstText(s2, s2.win.jobs[row].destination)
      s4 == SetExcludeText(s3, s3.win.jobs[row].excludes)
  IN LoadChecks(s4, row, CheckOrder)

\* MainWindow._on_job_selected
OnJobSelected(s, row) ==
  IF ~InRange(s, row) THEN s
  ELSE LET s1 == IF InRange(s, s.win.current_job_index)
                   THEN [s EXCEPT !.win.jobs[s.win.current_job_index] =
                                     CollectFormIntoJob(s.win.form, @)]
                   ELSE s
           s2 == [s1 EXCEPT !.win.current_job_index = row]
       IN LoadJobIntoForm(s2, row)

\* mutant of UpdateButtons: the controls are never put in the running state
UpdateButtonsNever(s, running) == [s EXCEPT !.win.running = FALSE]

\* MainWindow._update_buttons: btn_start, btn_run_all and the editing buttons
\* are enabled when not running, btn_stop when running
UpdateButtons(s, running) == [s EXCEPT !.win.running = running]

(***************************************************************************)
(* What an observer has seen.                                              *)
(*   trace     the signals of the runner since the last call of start()    *)
(*   awaiting  start() was called and finished has not been emitted since  *)
(*   overlap   start() was once called while awaiting, or while the        *)
(*             QProcess was not NotRunning                                 *)
(*   early     a queue entry was once examined while awaiting              *)
(*   exit      the runner as _on_finished found it: whether it ran, the    *)
(*             length of the trace, _buf, and the exit code                *)
(*   found     whether the latest call of start() found rsync              *)
(*   stale     _buf and _last_percent as the latest call of start() found  *)
(*             them                                                        *)
(*   input     what _read_stdout has read since the last call of start()   *)
(*   killing   Stop was pressed while the process of this call was Running *)
(*   stops     the calls of stop() on the runner by itself since its last  *)
(*             call of start(): idle the ones that found no process, live  *)
(*             the ones that found one                                     *)
(*   kind      "single" or "queue": which command made the latest run      *)
(*   calls     the calls of start() since that command                     *)
(*   single    the lines on_single_finished wrote to the log since the     *)
(*             latest accepted Run Selected                                *)
(*   batch     the latest Run All: the argument lists of the jobs as they  *)
(*             were when it was called, the entries examined, the          *)
(*             Running and [SKIP] lines of the log, the number of lines    *)
(*             on_queue_done wrote ("All profiles finished"), whether Stop *)
(*             was                                                         *)
(*             pressed before that line, whether the process was Running   *)
(*             then, and whether start() was called after Stop             *)
(***************************************************************************)
NoExit == [ran |-> FALSE, len |-> 0, buf |-> <<>>, code |-> 0]

NoBatch ==
  [began |-> FALSE, snap |-> <<>>, examined |-> <<>>, started |-> <<>>,
   skipped |-> <<>>, done |-> 0, stopped |-> FALSE, hit |-> FALSE,
   late |-> FALSE]

NoObs ==
  [trace |-> <<>>, awaiting |-> FALSE, overlap |-> FALSE, early |-> FALSE,
   exit |-> NoExit, found |-> TRUE, stale |-> [buf |-> <<>>, last_percent |-> -1],
   input |-> <<>>, killing |-> FALSE, stops |-> [idle |-> 0, live |-> 0],
   kind |-> "none", calls |-> 0, single |-> 0, batch |-> NoBatch]

(***************************************************************************)
(* RsyncRunner.start, _on_finished, and the slots of MainWindow that       *)
(* runner.finished calls.  Signals are delivered by direct calls, so a     *)
(* slot runs inside the emit, and start() of the next queue entry inside   *)
(* the slot.  rsync is what findExecutable("rsync") finds.                 *)
(***************************************************************************)
\* the values of QProcess.ProcessState
StateValue(state) ==
  CASE state = "NotRunning" -> 0 [] state = "Starting" -> 1 [] state = "Running" -> 2

\* RsyncRunner._on_state: state_changed.emit(name of the state)
OnState(s, state) == Emit(s, Ev("state_changed", StateValue(state), <<>>))

\* the QProcess changes its state and emits stateChanged, connected to _on_state
SetProcState(s, state) == OnState([s EXCEPT !.proc.state = state], state)

\* proc.started is connected to the signal started of the runner
EmitStarted(s) == Emit(s, Ev("started", 0, <<>>))

\* QProcess.start(): a QProcess that is not NotRunning warns and does nothing
ProcStart(s) ==
  IF s.proc.state # "NotRunning" THEN s
  ELSE SetProcState(
         [s EXCEPT !.proc = [state |-> "NotRunning", reads |-> 0, killed |-> FALSE]],
         "Starting")

\* MainWindow.on_single_finished
OnSingleFinished(s, code) ==
  [UpdateButtons(s, FALSE) EXCEPT !.obs.single = @ + 1]

\* MainWindow.on_queue_done
OnQueueDone(s) ==
  [UpdateButtons(s, FALSE) EXCEPT !.obs.batch.done = @ + 1]

RECURSIVE RunNextInQueue(_, _)
RECURSIVE RunnerStart(_, _, _)
RECURSIVE EmitFinished(_, _, _)
RECURSIVE CallSlots(_, _, _, _)

\* mutant of OnQueueFinished: the buttons go back to not running after every job
OnQueueFinishedIdle(s, code, rsync) == RunNextInQueue(UpdateButtons(s, FALSE), rsync)

\* MainWindow.on_queue_finished
OnQueueFinished(s, code, rsync) == RunNextInQueue(s, rsync)

\* the slots connected to runner.finished, called in the order of connection
CallSlots(s, slots, code, rsync) ==
  IF slots = <<>> THEN s
  ELSE LET s1 == IF Head(slots) = "on_single_finished"
                   THEN OnSingleFinished(s, code)
                   ELSE OnQueueFinished(s, code, rsync)
       IN CallSlots(s1, Tail(slots), code, rsync)

\* finished.emit(code)
EmitFinished(s, code, rsync) ==
  LET s1 == [Emit(s, Ev("finished", code, <<>>)) EXCEPT !.obs.awaiting = FALSE]
  IN CallSlots(s1, s1.win.finished_slots, code, rsync)

\* a call of start() begins: what is observed of it starts afresh
BeginStart(s, rsync) ==
  [s EXCEPT !.obs.trace = <<>>,
            !.obs.exit = NoExit,
            !.obs.overlap = @ \/ s.obs.awaiting \/ s.proc.state # "NotRunning",
            !.obs.awaiting = TRUE,
            !.obs.found = rsync,
            !.obs.input = <<>>,
            !.obs.killing = FALSE,
            !.obs.calls = @ + 1]

\* mutant of RunnerStart: the process is spawned whether rsync is found or not
RunnerStartSpawns(s, args, rsync) ==
  LET s1 == [BeginStart(s, rsync) EXCEPT !.runner = [buf |-> <<>>, last_percent |-> -1]]
  IN ProcStart(EmitProgress(s1, 0))

\* mutant of RunnerStart: _last_percent is kept from the run before
RunnerStartKeeps(s, args, rsync) ==
  LET s1 == [BeginStart(s, rsync) EXCEPT !.runner.buf = <<>>]
      s2 == EmitProgress(s1, 0)
  IN IF ~rsync THEN EmitFinished(EmitErrorLine(s2, ErrNoRsync), 127, rsync)
     ELSE ProcStart(s2)

\* mutant of RunnerStart: progress(0) is emitted after the error line or the spawn
RunnerStartLate(s, args, rsync) ==
  LET s1 == [BeginStart(s, rsync) EXCEPT !.runner = [buf |-> <<>>, last_percent |-> -1]]
  IN IF ~rsync
       THEN EmitFinished(EmitProgress(EmitErrorLine(s1, ErrNoRsync), 0), 127, rsync)
       ELSE EmitProgress(ProcStart(s1), 0)

\* RsyncRunner.start
RunnerStart(s, args, rsync) ==
  LET s1 == [BeginStart(s, rsync) EXCEPT !.runner = [buf |-> <<>>, last_percent |-> -1]]
      s2 == EmitProgress(s1, 0)
  IN IF ~rsync THEN EmitFinished(EmitErrorLine(s2, ErrNoRsync), 127, rsync)
     ELSE ProcStart(s2)

\* mutant of RunNextInQueue: the queue is taken from its end
RunNextInQueueLast(s, rsync) ==
  IF s.win.run_queue = <<>> THEN OnQueueDone(s)
  ELSE LET q == s.win.run_queue
           idx == q[Len(q)]
           job == s.win.jobs[idx]
           r == RsyncArgsForJob(job)
           s1 == [s EXCEPT !.win.run_queue = SubSeq(q, 1, Len(q) - 1),
                           !.obs.early = @ \/ s.obs.awaiting,
                           !.obs.batch.examined = Append(@, [idx |-> idx, ok |-> r.ok])]
       IN IF ~r.ok
            THEN RunNextInQueue(
                   [s1 EXCEPT !.obs.batch.skipped =
                      Append(@, [idx |-> idx, name |-> job.name, reason |-> r.err])],
                   rsync)
            ELSE RunnerStart(
                   [s1 EXCEPT !.obs.batch.started = Append(@, [idx |-> idx, args |-> r.args]),
                              !.obs.batch.late = @ \/ s.obs.batch.stopped],
                   r.args, rsync)

\* MainWindow._run_next_in_queue
RunNextInQueue(s, rsync) ==
  IF s.win.run_queue = <<>> THEN OnQueueDone(s)
  ELSE LET idx == Head(s.win.run_queue)
           job == s.win.jobs[idx]
           r == RsyncArgsForJob(job)
           s1 == [s EXCEPT !.win.run_queue = Tail(@),
                           !.obs.early = @ \/ s.obs.awaiting,
                           !.obs.batch.examined = Append(@, [idx |-> idx, ok |-> r.ok])]
       IN IF ~r.ok
            THEN RunNextInQueue(
                   [s1 EXCEPT !.obs.batch.skipped =
                      Append(@, [idx |-> idx, name |-> job.name, reason |-> r.err])],
                   rsync)
            ELSE RunnerStart(
                   [s1 EXCEPT !.obs.batch.started = Append(@, [idx |-> idx, args |-> r.args]),
                              !.obs.batch.late = @ \/ s.obs.batch.stopped],
                   r.args, rsync)

\* mutant of OnFinished: finished is emitted before the final progress
OnFinishedEarly(s, code, rsync) ==
  LET s0 == [s EXCEPT !.obs.exit = [ran |-> TRUE, len |-> Len(s.obs.trace),
                                    buf |-> s.runner.buf, code |-> code]]
      s1 == IF s0.runner.buf # <<>>
              THEN [HandleRaw(s0, s0.runner.buf) EXCEPT !.runner.buf = <<>>]
              ELSE s0
      s2 == EmitFinished(s1, code, rsync)
  IN EmitProgress(s2, IF code = 0 THEN 100 ELSE Max(s2.runner.last_percent, 0))

\* RsyncRunner._on_finished
OnFinished(s, code, rsync) ==
  LET s0 == [s EXCEPT !.obs.exit = [ran |-> TRUE, len |-> Len(s.obs.trace),
                                    buf |-> s.runner.buf, code |-> code]]
      s1 == IF s0.runner.buf # <<>>
              THEN [HandleRaw(s0, s0.runner.buf) EXCEPT !.runner.buf = <<>>]
              ELSE s0
      s2 == EmitProgress(s1, IF code = 0 THEN 100 ELSE Max(s1.runner.last_percent, 0))
  IN EmitFinished(s2, code, rsync)

\* mutant of RunnerStop: kill() whatever the state, and the percentage is forgotten
RunnerStopAlways(s) ==
  [s EXCEPT !.proc.killed = TRUE, !.runner.last_percent = -1]

\* mutant of RunnerStop: the process is not killed
RunnerStopIdle(s) == s

\* RsyncRunner.stop: QProcess.kill() of a process that is not NotRunning
RunnerStop(s) ==
  IF s.proc.state # "NotRunning" THEN [s EXCEPT !.proc.killed = TRUE] ELSE s

(***************************************************************************)
(* The inputs of the model.                                                *)
(***************************************************************************)
PathA == <<"/", "a">>

PathX == <<"/", "x">>

DestD == <<"/", "d">>

JobA == Job("A", <<PathA>>, DestD, <<>>, JobOptions)

JobB == Job("B", <<>>, DestD, <<>>, JobOptions)

JobC == Job("C", <<PathX>>, DestD, <<>>, [JobOptions EXCEPT !.dry_run = TRUE])

\* the job lists settings.json may hold when the window is built
SettingsFiles == { <<>>, <<JobA, JobC>>, <<JobA, JobB, JobC>> }

\* what the user may type into dst_edit
DstTexts == { <<>>, DestD }

\* what a process may write between two readyRead notifications
Chunks ==
  { <<"5", "%", "x", "\n">>,
    <<"t", "o", "-", "c", "h", "k", "=", "1", "/", "2">>,
    <<"t", "o", "-", "c", "h", "k", "=", "3", "/", "2", "\n">> }

\* the exit codes of a process that was not killed, and QProcess's exit code
\* of a process ended by SIGKILL
ExitCodes == {0, 1}

KilledCode == 9

(***************************************************************************)
(* The state.                                                              *)
(***************************************************************************)
VARIABLES win, runner, proc, obs, rsync_found

vars == <<win, runner, proc, obs, rsync_found>>

St == [win |-> win, runner |-> runner, proc |-> proc, obs |-> obs]

Becomes(s) ==
  /\ win' = s.win
  /\ runner' = s.runner
  /\ proc' = s.proc
  /\ obs' = s.obs

\* the check boxes as _build_ui leaves them, the other widgets empty
EmptyForm == [src |-> <<>>, dst |-> <<>>, excl |-> <<>>, opt |-> JobOptions]

\* MainWindow.__init__ and RsyncRunner.__init__, file being the jobs of
\* settings.json (none when there is no such file)
Construct(file) ==
  LET s0 == [win |-> [jobs |-> IF file = <<>>
                                 THEN <<Job("Default", <<>>, <<>>, <<>>, JobOptions)>>
                                 ELSE file,
                      current_job_index |-> 0,
                      run_queue |-> <<>>,
                      form |-> EmptyForm,
                      running |-> FALSE,
                      finished_slots |-> <<"on_single_finished">>],
             runner |-> [buf |-> <<>>, last_percent |-> -1],
             proc |-> [state |-> "NotRunning", reads |-> 0, killed |-> FALSE],
             obs |-> NoObs]
  IN UpdateButtons(OnJobSelected(s0, 1), FALSE)

Init ==
  /\ rsync_found \in BOOLEAN
  /\ \E file \in SettingsFiles :
       LET s == Construct(file)
       IN /\ win = s.win
          /\ runner = s.runner
          /\ proc = s.proc
          /\ obs = s.obs

(***************************************************************************)
(* The commands of the user.                                               *)
(***************************************************************************)
\* MainWindow.start_selected, reached by btn_start when it is enabled
StartSelected ==
  /\ ~win.running
  /\ LET s == St
         r == RsyncArgsForJob(s.win.jobs[s.win.current_job_index])
     IN IF ~InRange(s, s.win.current_job_index) \/ ~r.ok
          THEN UNCHANGED <<win, runner, proc, obs>>
          ELSE LET s1 == UpdateButtons(s, TRUE)
                   s2 == [s1 EXCEPT !.win.finished_slots = <<"on_single_finished">>,
                                    !.obs.kind = "single",
                                    !.obs.calls = 0,
                                    !.obs.single = 0,
                                    !.obs.batch = NoBatch]
               IN Becomes(RunnerStart(s2, r.args, rsync_found))
  /\ UNCHANGED rsync_found

\* mutant of StartAll: on_queue_finished is connected without disconnecting
StartAllStacks ==
  /\ ~win.running
  /\ win.jobs # <<>>
  /\ LET s == FormChanged(St)
         n == Len(s.win.jobs)
         s1 == [UpdateButtons(s, TRUE) EXCEPT
                  !.win.run_queue = [i \in 1..n |-> i],
                  !.win.finished_slots = Append(@, "on_queue_finished"),
                  !.obs.kind = "queue",
                  !.obs.calls = 0,
                  !.obs.single = 0,
                  !.obs.batch = [NoBatch EXCEPT
                                   !.began = TRUE,
                                   !.snap = [i \in 1..n |-> RsyncArgsForJob(s.win.jobs[i])]]]
     IN Becomes(RunNextInQueue(s1, rsync_found))
  /\ UNCHANGED rsync_found

\* MainWindow.start_all, reached by btn_run_all when it is enabled
StartAll ==
  /\ ~win.running
  /\ win.jobs # <<>>
  /\ LET s == FormChanged(St)
         n == Len(s.win.jobs)
         s1 == [UpdateButtons(s, TRUE) EXCEPT
                  !.win.run_queue = [i \in 1..n |-> i],
                  !.win.finished_slots = <<"on_queue_finished">>,
                  !.obs.kind = "queue",
                  !.obs.calls = 0,
                  !.obs.single = 0,
                  !.obs.batch = [NoBatch EXCEPT
                                   !.began = TRUE,
                                   !.snap = [i \in 1..n |-> RsyncArgsForJob(s.win.jobs[i])]]]
     IN Becomes(RunNextInQueue(s1, rsync_found))
  /\ UNCHANGED rsync_found

\* mutant of StopBackup: the run queue is not cleared
StopBackupKeepsQueue ==
  /\ win.running
  /\ LET during == obs.batch.began /\ obs.batch.done = 0
         s == [St EXCEPT !.obs.killing = @ \/ proc.state = "Running",
                          !.obs.batch.stopped = @ \/ during,
                          !.obs.batch.hit = @ \/ (during /\ proc.state = "Running")]
     IN Becomes(RunnerStop(s))
  /\ UNCHANGED rsync_found

\* MainWindow.stop_backup, reached by btn_stop when it is enabled
StopBackup ==
  /\ win.running
  /\ LET during == obs.batch.began /\ obs.batch.done = 0
         s == [St EXCEPT !.win.run_queue = <<>>,
                          !.obs.killing = @ \/ proc.state = "Running",
                          !.obs.batch.stopped = @ \/ during,
                          !.obs.batch.hit = @ \/ (during /\ proc.state = "Running")]
     IN Becomes(RunnerStop(s))
  /\ UNCHANGED rsync_found

\* the user replaces the text of dst_edit, which is never disabled
EditDestination ==
  /\ \E text \in DstTexts :
       /\ text # win.form.dst
       /\ Becomes(SetDstText(St, text))
  /\ UNCHANGED rsync_found

\* the user picks another row of jobs_list, which is never disabled
SelectJob ==
  /\ \E row \in 1..Len(win.jobs) :
       /\ row # win.current_job_index
       /\ Becomes(OnJobSelected(St, row))
  /\ UNCHANGED rsync_found

(***************************************************************************)
(* The process and the search path.                                        *)
(***************************************************************************)
\* the child process runs: QProcess goes from Starting to Running
ProcStarted ==
  /\ proc.state = "Starting"
  /\ Becomes(EmitStarted(SetProcState(St, "Running")))
  /\ UNCHANGED rsync_found

\* the child process cannot be run: QProcess reports FailedToStart through
\* errorOccurred, which nothing is connected to, goes back to NotRunning and
\* does not emit finished
ProcFailedToStart ==
  /\ proc.state = "Starting"
  /\ Becomes(SetProcState(St, "NotRunning"))
  /\ UNCHANGED rsync_found

\* readyReadStandardOutput, with the merged output the process wrote
ProcReadyRead ==
  /\ proc.state = "Running"
  /\ proc.reads < MaxReads
  /\ \E data \in Chunks :
       Becomes(ReadStdout([St EXCEPT !.proc.reads = @ + 1,
                                      !.obs.input = Append(@, data)], data))
  /\ UNCHANGED rsync_found

\* the process ends: QProcess is NotRunning when it emits finished
ProcExited ==
  /\ proc.state = "Running"
  /\ \E code \in ExitCodes \cup (IF proc.killed THEN {KilledCode} ELSE {}) :
       Becomes(OnFinished(SetProcState(St, "NotRunning"), code, rsync_found))
  /\ UNCHANGED rsync_found

\* rsync is installed into, or removed from, the search path
PathChanged ==
  /\ rsync_found' = ~rsync_found
  /\ UNCHANGED <<win, runner, proc, obs>>

Next ==
  \/ StartSelected
  \/ StartAll
  \/ StopBackup
  \/ EditDestination
  \/ SelectJob
  \/ ProcStarted
  \/ ProcFailedToStart
  \/ ProcReadyRead
  \/ ProcExited
  \/ PathChanged

Spec == Init /\ [][Next]_vars

(***************************************************************************)
(* The runner by itself: consecutive calls of start(), each followed by    *)
(* the output of the process in chunks and by its end.                     *)
(***************************************************************************)
MaxRuns == 2

MaxChunks == 3

\* the lines 10%, 10%, 55%, to-chk=0/0, 100%
DedupLines ==
  <<"1", "0", "%", "\n",
     "1", "0", "%", "\n",
     "5", "5", "%", "\n",
     "t", "o", "-", "c", "h", "k", "=", "0", "/", "0", "\n",
     "1", "0", "0", "%", "\n">>

\* lines that match to-chk=<left>/<total> and not the percent pattern
ToChkLines ==
  { <<"t", "o", "-", "c", "h", "k", "=", "4", "0", "/", "1", "0", "0", "\n">>,
    <<"t", "o", "-", "c", "h", "k", "=", "1", "0", "0", "/", "1", "0", "0", "\n">>,
    <<"t", "o", "-", "c", "h", "k", "=", "7", "1", "/", "1", "0", "0", "\n">>,
    <<"t", "o", "-", "c", "h", "k", "=", "2", "/", "0", "\n">> }

\* what a call of readAllStandardOutput() may return
RunChunks ==
  { <<"a">>, <<"\n">>, <<"b", "\n", "a">>, <<"5", "%", "x", "\n">>, DedupLines }
    \cup ToChkLines

RunInit ==
  /\ rsync_found = TRUE
  /\ LET s == Construct(<<>>)
     IN /\ win = s.win
        /\ runner = s.runner
        /\ proc = s.proc
        /\ obs = s.obs

\* RsyncRunner.start, called when no process is running
RunStart ==
  /\ proc.state = "NotRunning"
  /\ obs.calls < MaxRuns
  /\ Becomes(RunnerStart([St EXCEPT !.obs.stale = runner,
                                     !.obs.stops = [idle |-> 0, live |-> 0]],
                          <<>>, rsync_found))
  /\ UNCHANGED rsync_found

\* readyReadStandardOutput, with the merged output the process wrote
RunRead ==
  /\ proc.state = "Running"
  /\ proc.reads < MaxChunks
  /\ \E data \in RunChunks :
       Becomes(ReadStdout([St EXCEPT !.proc.reads = @ + 1,
                                      !.obs.input = Append(@, data)], data))
  /\ UNCHANGED rsync_found

RunNext ==
  \/ RunStart
  \/ ProcStarted
  \/ RunRead
  \/ ProcExited

SpecRun == RunInit /\ [][RunNext]_vars

(***************************************************************************)
(* The runner by itself, with output lines that hold both a percentage and *)
(* a to-chk marker.                                                        *)
(***************************************************************************)
\* lines with a number and a percent sign followed by a space, then a marker
SpacedBothLines ==
  { <<"5", "%", " ", "t", "o", "-", "c", "h", "k", "=", "1", "/", "2", "\n">>,
    <<" ", "2", "5", "0", "%", " ", "t", "o", "-", "c", "h", "k", "=", "3", "/", "4", "\n">> }

\* lines with a number and a percent sign followed by a letter, then a marker
JoinedBothLines ==
  { <<"5", "%", "x", " ", "t", "o", "-", "c", "h", "k", "=", "1", "/", "2", "\n">> }

BothChunks == SpacedBothLines \cup JoinedBothLines \cup { <<"5", "%", "x", "\n">> }

\* readyReadStandardOutput, with one whole line of the process
BothRead ==
  /\ proc.state = "Running"
  /\ proc.reads < MaxChunks
  /\ \E data \in BothChunks :
       Becomes(ReadStdout([St EXCEPT !.proc.reads = @ + 1,
                                      !.obs.input = Append(@, data)], data))
  /\ UNCHANGED rsync_found

BothNext ==
  \/ RunStart
  \/ ProcStarted
  \/ BothRead
  \/ ProcExited

SpecBoth == RunInit /\ [][BothNext]_vars

(***************************************************************************)
(* The runner by itself, with stop() called at any moment.                 *)
(***************************************************************************)
MaxStops == 2

\* RsyncRunner.stop
RunStop ==
  /\ LET idle == proc.state = "NotRunning"
     IN /\ (IF idle THEN obs.stops.idle ELSE obs.stops.live) < MaxStops
        /\ Becomes(RunnerStop([St EXCEPT !.obs.stops.idle = IF idle THEN @ + 1 ELSE @,
                                         !.obs.stops.live = IF idle THEN @ ELSE @ + 1]))
  /\ UNCHANGED rsync_found

StopNext ==
  \/ RunStart
  \/ ProcStarted
  \/ RunStop
  \/ ProcReadyRead
  \/ ProcExited

SpecStop == RunInit /\ [][StopNext]_vars

(***************************************************************************)
(* _rsync_args_for_job over the profiles settings.json may hold: the       *)
(* window is built from a file whose second profile is any of ArgJobs, and *)
(* Run All builds the arguments of every profile.                          *)
(***************************************************************************)
\* the option records JobOptions.from_dict may give
AllOptions == [OptionNames -> BOOLEAN]

ArgSources == { <<>>, <<PathA>>, << <<"/", "a", "/">> >>, <<PathX, PathA>> }

ArgDestinations == { <<>>, <<" ">>, DestD }

ArgExcludes == { <<>>, << <<"c">>, <<"b", "k">> >> }

ArgJobs ==
  { Job("J", src, dst, exc, o) :
      src \in ArgSources, dst \in ArgDestinations, exc \in ArgExcludes, o \in AllOptions }

ArgsInit ==
  /\ rsync_found = TRUE
  /\ \E job \in ArgJobs :
       LET s == Construct(<<JobB, job>>)
       IN /\ win = s.win
          /\ runner = s.runner
          /\ proc = s.proc
          /\ obs = s.obs

ArgsNext ==
  \/ StartAll
  \/ ProcStarted
  \/ ProcExited

SpecArgs == ArgsInit /\ [][ArgsNext]_vars

(***************************************************************************)
(* Properties.                                                             *)
(***************************************************************************)
\* the number of finished signals in a trace
FinishedCount(tr) == Cardinality({i \in 1..Len(tr) : tr[i].sig = "finished"})

\* the positions of a trace that hold a progress signal
ProgressAt(tr) == {i \in 1..Len(tr) : tr[i].sig = "progress"}

RECURSIVE Where(_, _)
\* the indices of the examined queue entries whose validation ended as ok
Where(ex, ok) ==
  IF ex = <<>> THEN <<>>
  ELSE (IF Head(ex).ok = ok THEN <<Head(ex).idx>> ELSE <<>>) \o Where(Tail(ex), ok)

\* C1: every call of start() is followed by exactly one finished signal:
\* never more than one, and one as soon as the call has run its path to the
\* end, that is, start() was called and the QProcess is NotRunning (again).
C1_ExactlyOneFinishedPerStart ==
  /\ FinishedCount(obs.trace) <= 1
  /\ (obs.trace # <<>> /\ proc.state = "NotRunning") => FinishedCount(obs.trace) = 1

\* C2: start() is never called while the QProcess is Starting or Running, nor
\* while the finished signal of the previous call is still to come, whatever
\* the user and the process do.
C2_NoStartWhileActive == ~obs.overlap

C2_Witness ==
  /\ obs.kind = "queue"
  /\ obs.calls >= 2
  /\ proc.state = "Running"
  /\ obs.batch.stopped

\* C3: Run All examines the queue entries in list order, each at most once;
\* an entry that fails validation gets a [SKIP] line with its name and the
\* reason and no call of start(), an entry that passes is started, and no
\* entry is examined while the finished signal of a started one is still to
\* come.
C3_QueueInOrder ==
  LET b == obs.batch
      n == Len(b.examined)
  IN b.began =>
       /\ \A i \in 1..n : b.examined[i].idx = i
       /\ ~b.stopped => [i \in 1..n |-> i] \o win.run_queue = [i \in 1..Len(b.snap) |-> i]
       /\ [k \in 1..Len(b.started) |-> b.started[k].idx] = Where(b.examined, TRUE)
       /\ [k \in 1..Len(b.skipped) |-> b.skipped[k].idx] = Where(b.examined, FALSE)
       /\ obs.calls = Len(b.started)
       /\ \A k \in 1..Len(b.skipped) :
            /\ b.skipped[k].name = win.jobs[b.skipped[k].idx].name
            /\ b.skipped[k].reason \in {"Profile has no sources", "Profile has no destination"}
       /\ \A k \in 1..Len(b.started) : b.started[k].args # <<>>
       /\ ~obs.early

C3_Witness ==
  /\ Len(obs.batch.examined) = 3
  /\ Where(obs.batch.examined, TRUE) = <<1, 3>>
  /\ Len(obs.batch.skipped) = 1
  /\ obs.batch.done = 1

\* C4: once Stop is pressed during a Run All, the run queue is empty and stays
\* so, start() is not called again for that batch, and a process that was
\* Running when Stop was pressed still ends in the finished signal, after
\* which the batch is complete.
C4_StopEndsBatch ==
  LET b == obs.batch
  IN b.stopped =>
       /\ win.run_queue = <<>>
       /\ ~b.late
       /\ (b.hit /\ proc.state = "NotRunning") =>
            /\ FinishedCount(obs.trace) = 1
            /\ obs.exit.ran
            /\ b.done = 1

C4_Witness ==
  /\ obs.batch.hit
  /\ proc.state = "NotRunning"
  /\ obs.exit.code = KilledCode
  /\ Len(obs.batch.examined) < Len(obs.batch.snap)

\* C5: every Run All writes the batch-complete line exactly once: never
\* twice, only with the queue empty and no finished signal still to come, and
\* it has written it whenever the batch has begun and no process is left.
C5_OneBatchComplete ==
  LET b == obs.batch
  IN /\ b.done <= 1
     /\ b.done = 1 => (win.run_queue = <<>> /\ ~obs.awaiting)
     /\ (b.began /\ proc.state = "NotRunning") => b.done = 1

\* C6: the batch runs the jobs as they were when Run All was called: every
\* examined entry validates as it did then, and every started entry runs
\* with the argument list it had then.
C6_QueueIsSnapshot ==
  LET b == obs.batch
  IN /\ \A k \in 1..Len(b.examined) :
          b.examined[k].ok = b.snap[b.examined[k].idx].ok
     /\ \A k \in 1..Len(b.started) :
          b.started[k].args = b.snap[b.started[k].idx].args

\* C7: the window never waits for a run that cannot end: while the controls
\* are in the running state, a process is there whose exit will emit finished.
C7_ControlFlowCompletes == win.running => proc.state # "NotRunning"

\* C8: on process exit the runner emits the pending partial line (when _buf
\* is not empty) with the progress extracted from it, then the final
\* progress, then finished with the exit code, also when there was no output;
\* finished is the last signal of the run.
C8_ExitOrder ==
  /\ \A i \in 1..Len(obs.trace) : obs.trace[i].sig = "finished" => i = Len(obs.trace)
  /\ obs.exit.ran =>
       LET tail == SubSeq(obs.trace, obs.exit.len + 1, Len(obs.trace))
           n == Len(tail)
       IN /\ n >= 2
          /\ tail[n] = Ev("finished", obs.exit.code, <<>>)
          /\ tail[n - 1].sig = "progress"
          /\ IF obs.exit.buf # <<>>
               THEN /\ tail[1] = Ev("line", 0, Decode(obs.exit.buf))
                    /\ n \in {3, 4}
                    /\ n = 4 => tail[2].sig = "progress"
               ELSE n = 2

C8_Witness ==
  /\ obs.exit.ran
  /\ obs.exit.buf # <<>>
  /\ Len(obs.trace) - obs.exit.len = 4
  /\ obs.exit.code # 0

\* C9: the final progress is 100 when the exit code is 0, and otherwise the
\* last percentage the progress extraction emitted in this run, or 0 when it
\* emitted none.
C9_FinalProgress ==
  obs.exit.ran =>
    LET n == Len(obs.trace)
        parsed == ProgressAt(obs.trace) \cap (2..(n - 2))
        last == IF parsed = {} THEN 0
                ELSE obs.trace[CHOOSE i \in parsed : \A j \in parsed : j <= i].n
    IN obs.trace[n - 1].n = IF obs.exit.code = 0 THEN 100 ELSE last

\* C10: every progress signal carries an integer from 0 to 100.
C10_ProgressInRange ==
  \A i \in ProgressAt(obs.trace) : obs.trace[i].n \in 0..100

\* C11: a call of start() that finds no rsync emits the error line, then
\* finished(127), after its progress(0), and spawns nothing: the process stays
\* NotRunning and neither started nor state_changed is emitted.
C11_NoRsyncNoSpawn ==
  (obs.calls > 0 /\ ~obs.found) =>
    /\ obs.trace = << Ev("progress", 0, <<>>),
                     Ev("error_line", 0, ErrNoRsync),
                     Ev("finished", 127, <<>>) >>
    /\ proc.state = "NotRunning"

C11_Witness ==
  /\ obs.calls > 0
  /\ ~obs.found
  /\ Len(obs.trace) = 3
  /\ obs.trace[3].n = 127

\* a killed process ends, whatever it was doing
KilledExit == proc.killed /\ ProcExited

\* weak fairness of KilledExit, which is enabled exactly when a killed process
\* is Running
FairSpec ==
  /\ Spec
  /\ \/ []<>(~(proc.killed /\ proc.state = "Running"))
     \/ []<><<KilledExit>>_vars

\* C12: once stop() is called while the process is running, the run reaches
\* NotRunning with exactly one finished signal, without any further output
\* being needed, and it never has more than one finished signal.
C12_StopFinishes ==
  /\ [](obs.killing => FinishedCount(obs.trace) <= 1)
  /\ obs.killing ~> (proc.state = "NotRunning" /\ FinishedCount(obs.trace) = 1)

C12_Witness ==
  /\ obs.killing
  /\ proc.state = "NotRunning"
  /\ FinishedCount(obs.trace) = 1
  /\ obs.input = <<>>
  /\ obs.trace[Len(obs.trace)] = Ev("finished", KilledCode, <<>>)

\* the signals of a call of start() that tell of its output and of its end
OutputEvents(tr) ==
  SelectSeq(tr, LAMBDA e : e.sig \in {"progress", "line", "error_line", "finished"})

RECURSIVE ReadAll(_, _)
ReadAll(s, input) ==
  IF input = <<>> THEN s ELSE ReadAll(ReadStdout(s, Head(input)), Tail(input))

\* what a runner that never ran before emits for this output and this exit
FreshTrace(input, exit) ==
  LET s0 == [Construct(<<>>) EXCEPT !.win.finished_slots = <<>>]
      s1 == ReadAll(EmitProgress(s0, 0), input)
  IN IF exit.ran THEN OnFinished(s1, exit.code, TRUE).obs.trace ELSE s1.obs.trace

\* C13: the line, progress and finished signals of a run are those a runner
\* that never ran before emits for the same output and the same exit code,
\* whatever the runs before left in _buf and _last_percent.
C13_NoLeakBetweenRuns ==
  (obs.calls > 0 /\ obs.found) =>
    OutputEvents(obs.trace) = FreshTrace(obs.input, obs.exit)

C13_Witness ==
  /\ obs.found
  /\ obs.exit.ran
  /\ obs.stale.last_percent = 5
  /\ obs.input = << <<"5", "%", "x", "\n">> >>
  /\ \E i \in 2..(obs.exit.len) : obs.trace[i] = Ev("progress", 5, <<>>)

\* the values of the progress signals the call emitted before the process ended
ParsedProgress ==
  LET n == IF obs.exit.ran THEN obs.exit.len ELSE Len(obs.trace)
      ps == SelectSeq(SubSeq(obs.trace, 1, n), LAMBDA e : e.sig = "progress")
  IN [i \in 1..Len(ps) |-> ps[i].n]

\* C14: a percentage is emitted only when it differs from the last one the
\* parser emitted in this run: after start(), the lines 10%, 10%, 55%,
\* to-chk=0/0, 100% yield exactly the progress signals 0, 10, 55, 100.
C14_DedupExample ==
  (obs.input = <<DedupLines>>) => ParsedProgress = <<0, 10, 55, 100>>

\* floor((total - left) / total * 100), in exact arithmetic
FloorPct(left, total) == ((total - left) * 100) \div total

\* C15: a line to-chk=<left>/<total> without a percent pattern gives
\* floor((total - left) / total * 100) when total > 0, emitted when it differs
\* from the last emitted value (the first line of a run always does), and
\* gives no progress signal when total = 0.
C15_ToChkFloor ==
  \A line \in ToChkLines :
    (obs.input = <<line>>) =>
      LET m == ReToChkSearch(line)
          left == ParseInt(m[1])
          total == ParseInt(m[2])
      IN ParsedProgress = IF total > 0 THEN <<0, FloorPct(left, total)>> ELSE <<0>>

\* the positions of the newline bytes of a stream
Newlines(stream) == {i \in 1..Len(stream) : stream[i] = "\n"}

\* the k-th line of a stream: the bytes between its (k-1)-th and k-th newline
LineOf(stream, k) ==
  LET nl == Newlines(stream)
      end == CHOOSE i \in nl : Cardinality({j \in nl : j < i}) = k - 1
      before == {j \in nl : j < end}
      from == IF before = {} THEN 1 ELSE (CHOOSE j \in before : \A h \in before : h <= j) + 1
  IN SubSeq(stream, from, end - 1)

\* the bytes after the last newline of a stream
Fragment(stream) ==
  LET nl == Newlines(stream)
      from == IF nl = {} THEN 1 ELSE (CHOOSE j \in nl : \A h \in nl : h <= j) + 1
  IN SubSeq(stream, from, Len(stream))

\* the line signals a stream is to give, ended or not
ExpectedLines(stream, ended) ==
  LET whole == [k \in 1..Cardinality(Newlines(stream)) |-> Decode(LineOf(stream, k))]
  IN IF ended /\ Fragment(stream) # <<>>
       THEN Append(whole, Decode(Fragment(stream)))
       ELSE whole

\* the texts of the line signals of the call
LineTexts ==
  LET ls == SelectSeq(obs.trace, LAMBDA e : e.sig = "line")
  IN [i \in 1..Len(ls) |-> ls[i].text]

\* C16: however the output arrives in chunks, the line signals of a call are
\* the lines of the whole stream read so far, split on the newline byte; the
\* fragment after the last newline is emitted once, as the last line, when
\* the process has ended, and not before.
C16_LinesIndependentOfChunks ==
  (obs.calls > 0 /\ obs.found) =>
    LineTexts = ExpectedLines(Flatten(obs.input), obs.exit.ran)

C16_Witness ==
  /\ obs.exit.ran
  /\ obs.input = << <<"b", "\n", "a">>, <<"a">>, <<"\n">> >>
  /\ LineTexts = << <<"b">>, <<"a", "a">> >>

\* the profile Run All builds the arguments of, and what became of it
ArgJob == win.jobs[2]

ArgStarted == {i \in 1..Len(obs.batch.started) : obs.batch.started[i].idx = 2}

ArgSkipped == {i \in 1..Len(obs.batch.skipped) : obs.batch.skipped[i].idx = 2}

ArgArgs == obs.batch.started[CHOOSE i \in ArgStarted : TRUE].args

\* C17: a profile with no sources, or with an empty or whitespace-only
\* destination, is refused with a validation error; any other profile gives
\* a non-empty list that ends with the destination, once, right after all
\* the sources in their order.
C17_Validation ==
  (obs.batch.began /\ Len(win.jobs) = 2) =>
    IF ArgJob.sources = <<>> \/ Strip(ArgJob.destination) = <<>>
      THEN ArgStarted = {} /\ Cardinality(ArgSkipped) = 1
      ELSE /\ ArgSkipped = {}
           /\ Cardinality(ArgStarted) = 1
           /\ LET args == ArgArgs
                  n == Len(ArgJob.sources)
                  k == Len(args) - n - 1
              IN /\ k >= 0
                 /\ args[Len(args)] = ArgJob.destination
                 /\ \A i \in 1..n :
                      args[k + i] \in {ArgJob.sources[i], ArgJob.sources[i] \o <<"/">>}

\* the toggles in the order of their flags, as the specification lists them
ToggleOrder ==
  << [opt |-> "archive", flags |-> << <<"-", "a">> >>],
     [opt |-> "verbose", flags |-> << <<"-", "v">> >>],
     [opt |-> "compress", flags |-> << <<"-", "z">> >>],
     [opt |-> "preserve",
      flags |-> << <<"-", "p">>, <<"-", "o">>, <<"-", "g">>, <<"-", "D">>, <<"-", "t">> >>],
     [opt |-> "delete", flags |-> << <<"-", "-", "d", "e", "l", "e", "t", "e">> >>],
     [opt |-> "dry_run", flags |-> << <<"-", "-", "d", "r", "y", "-", "r", "u", "n">> >>],
     [opt |-> "progress",
      flags |-> << <<"-", "-", "i", "n", "f", "o", "=", "p", "r", "o", "g", "r", "e", "s", "s", "2">> >>] >>

ExpectedFlags(o) ==
  Flatten([i \in 1..Len(ToggleOrder) |->
             IF o[ToggleOrder[i].opt] THEN ToggleOrder[i].flags ELSE <<>>])

\* C18: the arguments begin with the flags of the toggles that are set, in
\* the order archive, verbose, compress, the five flags of preserve, delete,
\* dry-run, progress; then comes one --exclude and its pattern for every
\* exclude, in the order of excludes; then the sources and the destination.
C18_FlagOrder ==
  (obs.batch.began /\ Len(win.jobs) = 2 /\ ArgStarted # {}) =>
    LET args == ArgArgs
        f == ExpectedFlags(ArgJob.options)
        e == ArgJob.excludes
    IN /\ Len(args) = Len(f) + 2 * Len(e) + Len(ArgJob.sources) + 1
       /\ SubSeq(args, 1, Len(f)) = f
       /\ \A i \in 1..Len(e) :
            /\ args[Len(f) + 2 * i - 1] = <<"-", "-", "e", "x", "c", "l", "u", "d", "e">>
            /\ args[Len(f) + 2 * i] = e[i]

C18_Witness ==
  /\ obs.batch.began
  /\ Len(win.jobs) = 2
  /\ ArgStarted # {}
  /\ \A opt \in OptionNames : ArgJob.options[opt] <=> opt \in {"preserve", "delete", "progress"}
  /\ Len(ArgJob.excludes) = 2

\* C19: among the arguments, a source that is an existing directory and has
\* no trailing slash has one slash appended, any other source (ending in a
\* slash, or not an existing directory) is as it was, and the sources keep
\* their number and order.
C19_SourceNormalisation ==
  (obs.batch.began /\ Len(win.jobs) = 2 /\ ArgStarted # {}) =>
    LET args == ArgArgs
        src == ArgJob.sources
        k == Len(args) - Len(src) - 1
    IN /\ k = Len(ExpectedFlags(ArgJob.options)) + 2 * Len(ArgJob.excludes)
       /\ \A i \in 1..Len(src) :
            args[k + i] = IF src[i] \in ExistingDirs /\ src[i][Len(src[i])] # "/"
                            THEN src[i] \o <<"/">>
                            ELSE src[i]

C19_Witness ==
  /\ obs.batch.began
  /\ Len(win.jobs) = 2
  /\ ArgStarted # {}
  /\ ArgJob.sources = <<PathX, PathA>>
  /\ LET args == ArgArgs
     IN SubSeq(args, Len(args) - 2, Len(args)) = <<PathX, <<"/", "a", "/">>, DestD>>

\* C20: the first signal of every call of start() is progress(0): it comes
\* before the spawn (state_changed), the error line, and every line, progress
\* and finished signal of the call.
C20_BaselineFirst ==
  obs.calls > 0 =>
    /\ obs.trace # <<>>
    /\ obs.trace[1] = Ev("progress", 0, <<>>)

C20_Witness ==
  /\ obs.calls > 0
  /\ obs.found
  /\ obs.exit.ran
  /\ Len(obs.trace) >= 6
  /\ obs.trace[2] = Ev("state_changed", StateValue("Starting"), <<>>)
  /\ \E i \in 3..Len(obs.trace) : obs.trace[i].sig = "line"

\* C21: stop() emits no signal and leaves _buf and _last_percent alone; when
\* no process is running, or the process is killed already, it leaves the
\* process as it is too, so that stop() called again changes nothing; and a
\* run stopped once or several times ends with exactly one finished signal.
C21_StopIdempotent ==
  /\ [][RunStop =>
         /\ obs'.trace = obs.trace
         /\ runner' = runner
         /\ (proc.state = "NotRunning" \/ proc.killed) => proc' = proc]_vars
  /\ []((obs.stops.live > 0 /\ obs.exit.ran) => FinishedCount(obs.trace) = 1)

C21_Witness ==
  /\ obs.stops.idle > 0
  /\ obs.stops.live > 1
  /\ obs.exit.ran
  /\ obs.exit.code = KilledCode
  /\ runner.last_percent = 5

\* the number in front of the first percent sign of a line
StandalonePercent(line) ==
  LET at == CHOOSE i \in 1..Len(line) : line[i] = "%" /\ \A j \in 1..(i - 1) : line[j] # "%"
      from == CHOOSE i \in 1..at : /\ \A j \in i..(at - 1) : IsDigit(line[j])
                                    /\ (i = 1 \/ ~IsDigit(line[i - 1]))
  IN ParseInt(SubSeq(line, from, at - 1))

RECURSIVE PercentsOnly(_, _)
\* the progress values of lines of which only the percentage counts, clamped
\* to 0..100, each emitted when it differs from the last one emitted
PercentsOnly(lines, last) ==
  IF lines = <<>> THEN <<>>
  ELSE LET pct == Max(0, Min(100, StandalonePercent(Head(lines))))
       IN IF pct = last THEN PercentsOnly(Tail(lines), last)
          ELSE <<pct>> \o PercentsOnly(Tail(lines), pct)

\* C22: on a line that holds both a standalone N% and a to-chk marker only
\* the percentage counts, clamped to 0..100: the progress signals of such
\* lines are their percentages without repetitions, and the marker gives none.
C22_PercentFirst ==
  (obs.input # <<>> /\ \A i \in 1..Len(obs.input) : obs.input[i] \in SpacedBothLines) =>
    ParsedProgress = <<0>> \o PercentsOnly(obs.input, -1)

\* C23: when the buttons are in the not-running state no process is active
\* and the run queue is empty; and from Run All until the batch is complete,
\* between two profiles of the batch too, they are in the running state.
C23_ControlsFollowRun ==
  /\ ~win.running => (proc.state = "NotRunning" /\ win.run_queue = <<>>)
  /\ (obs.batch.began /\ obs.batch.done = 0) => win.running

C23_Witness ==
  /\ obs.batch.began
  /\ obs.batch.done = 0
  /\ Len(obs.batch.started) = 2
  /\ proc.state = "Starting"
  /\ win.running

\* C24: exactly one handler is connected to finished at every moment, that of
\* the kind of run started last: after Run Selected no finished signal pops
\* or advances the run queue, and after Run All none is handled by
\* on_single_finished.
C24_OneFinishedHandler ==
  /\ Len(win.finished_slots) = 1
  /\ obs.kind \in {"none", "single"} =>
       /\ win.finished_slots = <<"on_single_finished">>
       /\ win.run_queue = <<>>
       /\ obs.batch = NoBatch
  /\ obs.kind = "queue" =>
       /\ win.finished_slots = <<"on_queue_finished">>
       /\ obs.single = 0

C24_Witness ==
  /\ obs.kind = "queue"
  /\ obs.batch.done = 1
  /\ Len(obs.batch.started) = 2
  /\ obs.exit.ran
  /\ obs.single = 0

====
